---- MODULE Spec2Model ----
(***************************************************************************)
(* Model of the GPU-quota accounting and enforcement engine of             *)
(* plislurmtool (src/src/plislurmtool/pli_cp/checker.py).                  *)
(*                                                                         *)
(* Time.  The wall clock `now` counts ticks; TicksPerSec ticks make one    *)
(* second, so that datetime.now() carries a sub-second part, while the     *)
(* scheduler's job timestamps and every "%Y-%m-%d-%H:%M:%S" string are     *)
(* whole seconds.  A formatted time string is represented by the number of *)
(* whole seconds it denotes (the host is taken to run in a fixed-offset    *)
(* time zone), a timestamp handed to get_gpu_hrs by a number of ticks.     *)
(*                                                                         *)
(* GPU hours.  get_gpu_hrs divides a sum of GPU-seconds by 3600.  The      *)
(* model keeps every GPU-hour quantity as the exact numerator over 3600    *)
(* (GPU-seconds); a quota of Q hours is Q * SecsPerHour.  Floating-point   *)
(* rounding is not modelled.                                               *)
(***************************************************************************)
EXTENDS Integers, Sequences, FiniteSets, TLC

VARIABLES
    now,              \* wall clock, in ticks since the epoch
    jobs,             \* the scheduler's accounting database, by job id
    monitor_window,   \* --monitor_window (minutes) of this deployment
    rolling_window,   \* --rolling_window (minutes) of this deployment
    cycle,            \* what the last admin monitor cycle emitted
    report,           \* what the last call on a user's checker produced
    lastNonDeficit,   \* history: per user, last instant seen within quota
    deficitSince      \* history: per user, instant since which over quota

vars == <<now, jobs, monitor_window, rolling_window, cycle, report, lastNonDeficit, deficitSince>>

----------------------------------------------------------------------------
(* Bounds of the model *)

MaxJobs == 2
TicksPerSec == 2
StepHours == 12
MaxSteps == 4
MaxSmallSteps == 2
StartDay == 89
ReportSteps == 2
FaultySteps == 2
ParseSteps == 1

(* Program constants *)

Day == 86400
SecsPerHour == 3600
SecsPerMin == 60
Quota == 500
MonitorWindow == 30

Users == {"alice", "bob"}
JobIds == 1..MaxJobs
ActiveStates == {"RUNNING", "PENDING"}
None == "none"

\* The deployments of the admin monitor: the default monitor window with a
\* one-day rolling window, one-day monitor and rolling windows, and two-day
\* monitor and rolling windows.
Deployments == {[monitor_window |-> MonitorWindow, rolling_window |-> 1440],
                [monitor_window |-> 1440, rolling_window |-> 1440],
                [monitor_window |-> 2880, rolling_window |-> 2880]}
\* The windows a user's cp-quota-check is run with: rolling, unset (0, the
\* calendar month) and negative.
ReportDeployments == {[monitor_window |-> MonitorWindow, rolling_window |-> rw]
                          : rw \in {1440, 0, 0 - 1440}}

\* First days (since the epoch) of the calendar months the model's clock crosses.
MonthStarts == <<59, 90, 120>>

\* The generic-resource allocation lists a job may carry.
TresChoices == <<
    << [type |-> "cpu", name |-> "", count |-> 8] >>,
    << [type |-> "cpu", name |-> "", count |-> 8],
       [type |-> "gres", name |-> "gpu", count |-> 32],
       [type |-> "gres", name |-> "gpu", count |-> 32] >> >>

StartTick == StartDay * Day * TicksPerSec
StepTicks == StepHours * SecsPerHour * TicksPerSec
MaxTick == StartTick + MaxSteps * StepTicks + MaxSmallSteps

----------------------------------------------------------------------------
(* Time conversions *)

\* datetime.strftime("%Y-%m-%d-%H:%M:%S"): the sub-second part is dropped.
strftime(t) == t \div TicksPerSec

\* date2int: the timestamp of a formatted time.
date2int(date_str) == date_str * TicksPerSec

\* datetime.now().replace(day=1).strftime("%Y-%m-%d-00:00:00")
RECURSIVE MonthStartFrom(_, _)
MonthStartFrom(sec, i) ==
    IF i < Len(MonthStarts) /\ MonthStarts[i + 1] * Day <= sec
    THEN MonthStartFrom(sec, i + 1)
    ELSE MonthStarts[i] * Day

first_of_month(t) == MonthStartFrom(strftime(t), 1)

----------------------------------------------------------------------------
(* The accounting source (sacct) *)

NoJob == [user |-> None, state |-> "NONE", start |-> 0, endt |-> 0, tres |-> 1]

\* Elapsed seconds the scheduler reports for a job at tick t.
Elapsed(job, t) ==
    IF job.start = 0 THEN 0
    ELSE IF job.state = "RUNNING" THEN strftime(t) - job.start
    ELSE job.endt - job.start

\* One job entry of the sacct --json response.
RawJob(J, t, j) ==
    [job_id |-> j,
     user |-> J[j].user,
     state |-> J[j].state,
     time |-> [elapsed |-> Elapsed(J[j], t), start |-> J[j].start],
     tres |-> [allocated |-> TresChoices[J[j].tres]]]

RECURSIVE SacctFrom(_, _, _, _, _, _)
SacctFrom(J, t, user, S, E, j) ==
    IF j > MaxJobs THEN << >>
    ELSE LET job == J[j]
             selected ==
                 /\ job.state # "NONE"
                 /\ user = "ALL" \/ job.user = user
                 /\ job.state \in ActiveStates \/ job.endt >= S
         IN  (IF selected THEN << RawJob(J, t, j) >> ELSE << >>)
                 \o SacctFrom(J, t, user, S, E, j + 1)

\* sacct [-u user | --allusers] -S start -E end --json: the jobs that were
\* eligible in [S, E], in job-id order.
Sacct(J, t, user, S, E) == SacctFrom(J, t, user, S, E, 1)

----------------------------------------------------------------------------
(* ResourceChecker *)

RECURSIVE SumGpus(_, _)
SumGpus(allocated, i) ==
    IF i > Len(allocated) THEN 0
    ELSE (IF allocated[i].type = "gres" /\ allocated[i].name = "gpu"
          THEN allocated[i].count ELSE 0) + SumGpus(allocated, i + 1)

get_n_gpus(job_data) == SumGpus(job_data.tres.allocated, 1)

\* records.sort(key=start_time): a stable sort.
RECURSIVE InsertByStart(_, _)
InsertByStart(rec, s) ==
    IF s = << >> THEN << rec >>
    ELSE IF s[Len(s)].start_time <= rec.start_time THEN Append(s, rec)
    ELSE Append(InsertByStart(rec, SubSeq(s, 1, Len(s) - 1)), s[Len(s)])

RECURSIVE SortByStart(_)
SortByStart(s) ==
    IF s = << >> THEN << >>
    ELSE InsertByStart(s[Len(s)], SortByStart(SubSeq(s, 1, Len(s) - 1)))

ParseRecord(job) ==
    [n_gpus |-> get_n_gpus(job),
     elapsed |-> job.time.elapsed,
     start_time |-> job.time.start,
     job_id |-> job.job_id,
     user |-> job.user,
     state |-> job.state]

KeepRecord(start_time_int, record) ==
    date2int(record.start_time) >= start_time_int

RECURSIVE ParseFrom(_, _, _)
ParseFrom(data, start_time_int, i) ==
    IF i > Len(data) THEN << >>
    ELSE LET record == ParseRecord(data[i])
         IN  (IF KeepRecord(start_time_int, record) THEN << record >> ELSE << >>)
                 \o ParseFrom(data, start_time_int, i + 1)

parse(data, start_time) == SortByStart(ParseFrom(data, date2int(start_time), 1))

\* The keys of a job entry that lines 53-65 subscript.
RequiredKeys == {"job_id", "user", "state", "time", "tres"}

\* The entries of a response on which a subscript raises KeyError.
KeyErrors(data) == {i \in 1..Len(data) : ~(RequiredKeys \subseteq DOMAIN data[i])}

\* parse on any response: no statement of lines 52-67 is guarded, so the
\* KeyError of one entry leaves parse, and no record list is returned.
ParseOutcome(data, start_time) ==
    IF KeyErrors(data) # {}
    THEN [error |-> "KeyError", records |-> << >>]
    ELSE [error |-> None, records |-> parse(data, start_time)]

\* ResourceChecker.__init__: the window, then the usage fetched for it.
WindowStart(t, rw) ==
    IF rw # 0 THEN strftime(t - rw * SecsPerMin * TicksPerSec)
    ELSE first_of_month(t)

ResourceChecker(J, t, user, quota, rw) ==
    LET start_time == WindowStart(t, rw)
        end_time == strftime(t)
    IN  [user |-> user, rolling_window |-> rw, quota |-> quota,
         start_time |-> start_time, end_time |-> end_time,
         usage |-> parse(Sacct(J, t, user, start_time, end_time), start_time)]

IsActive(record) == record.state \in ActiveStates

active_jobs(c) == SelectSeq(c.usage, IsActive)

\* A range test that leaves the end of the interval out.
InRange_HalfOpen(record, start_timestamp, end_timestamp) ==
    /\ date2int(record.start_time) >= start_timestamp
    /\ date2int(record.start_time) < end_timestamp

InRange(record, start_timestamp, end_timestamp) ==
    /\ date2int(record.start_time) >= start_timestamp
    /\ date2int(record.start_time) <= end_timestamp

RECURSIVE GpuSecsFrom(_, _, _, _)
GpuSecsFrom(usage, start_timestamp, end_timestamp, i) ==
    IF i > Len(usage) THEN 0
    ELSE (IF InRange(usage[i], start_timestamp, end_timestamp)
          THEN usage[i].elapsed * usage[i].n_gpus ELSE 0)
             + GpuSecsFrom(usage, start_timestamp, end_timestamp, i + 1)

\* get_gpu_hrs, as GPU-seconds (the numerator over 3600).
get_gpu_hrs(c, start_timestamp, end_timestamp) ==
    GpuSecsFrom(c.usage, start_timestamp, end_timestamp, 1)

ForecastHours == <<12, 24, 72, 168>>

\* A forecast that shifts the window start by minutes instead of hours.
ForecastAt_Minutes(c, total_quota, hr_shifted) ==
    LET date_caps == date2int(c.start_time) + SecsPerMin * hr_shifted * TicksPerSec
    IN  total_quota * SecsPerHour - get_gpu_hrs(c, date_caps, date2int(c.end_time))

\* Lines 110-112: the quota left once the window start has moved hr_shifted on.
ForecastAt(c, total_quota, hr_shifted) ==
    LET date_caps == date2int(c.start_time) + SecsPerHour * hr_shifted * TicksPerSec
    IN  total_quota * SecsPerHour - get_gpu_hrs(c, date_caps, date2int(c.end_time))

\* The error kind ForecastUnsupported is the failed assert of line 104.
ForecastUnsupported == "AssertionError"

\* get_quota_forecast: the assert on the rolling window, then the shifted
\* quota per offset of hrs.
get_quota_forecast(c, total_quota, hrs) ==
    IF c.rolling_window = 0
    THEN [error |-> ForecastUnsupported, values |-> << >>]
    ELSE [error |-> None,
          values |-> [i \in 1..Len(hrs) |-> ForecastAt(c, total_quota, hrs[i])]]

\* A "yesterday" that lies only half a day back.
YesterdayBound_HalfDay(t) == t - (Day \div 2) * TicksPerSec

YesterdayBound(t) == t - Day * TicksPerSec

\* A get_quota_yesterday that forgets to step one day back.
get_quota_yesterday_today(c, t) ==
    c.quota * SecsPerHour - get_gpu_hrs(c, date2int(c.start_time), t)

get_quota_yesterday(c, t) ==
    c.quota * SecsPerHour - get_gpu_hrs(c, date2int(c.start_time), YesterdayBound(t))

NoText == [verbose |-> FALSE]

\* The report of lines 123-157 once the window branch of lines 149-155 is
\* decided: with_forecast says whether get_quota_forecast is called.  An
\* exception of the forecaster leaves the caller without a report.
ReportWith(c, verbose, with_forecast) ==
    LET gpu_hours == get_gpu_hrs(c, date2int(c.start_time), date2int(c.end_time))
        remaining_hours == c.quota * SecsPerHour - gpu_hours
        forecast == IF with_forecast THEN get_quota_forecast(c, c.quota, ForecastHours)
                    ELSE [error |-> None, values |-> << >>]
    IN  IF ~verbose THEN [remaining |-> remaining_hours, error |-> None, text |-> NoText]
        ELSE IF forecast.error # None
        THEN [remaining |-> remaining_hours, error |-> forecast.error, text |-> NoText]
        ELSE [remaining |-> remaining_hours,
              error |-> None,
              text |-> [verbose |-> TRUE,
                        user |-> c.user,
                        start_time |-> c.start_time,
                        end_time |-> c.end_time,
                        gpu_hours |-> gpu_hours,
                        remaining_hours |-> remaining_hours,
                        exceeded |-> gpu_hours > c.quota * SecsPerHour,
                        rolling |-> with_forecast,
                        forecast |-> forecast.values]]

\* A usage report that appends the forecast whatever the window.
usage_report_AlwaysForecast(c, verbose) == ReportWith(c, verbose, TRUE)

usage_report(c, verbose) == ReportWith(c, verbose, c.rolling_window # 0)

----------------------------------------------------------------------------
(* ResourceCheckerAdmin.usage_monitor *)

JobIdsOf(records) == {records[i].job_id : i \in 1..Len(records)}

ActiveUsers(admin) ==
    LET act == active_jobs(admin) IN {act[i].user : i \in 1..Len(act)}

\* The branch usage_monitor takes for a user's remaining quota.
Classify(user_quota, quota_yesterday) ==
    IF user_quota < 0
    THEN IF quota_yesterday >= 0 THEN "WARN" ELSE "CANCEL"
    ELSE "OK"

UserChecker(J, t, rw, user) == ResourceChecker(J, t, user, Quota, rw)

UserVerdict(J, t, rw, user) ==
    LET user_checker == UserChecker(J, t, rw, user)
    IN  Classify(usage_report(user_checker, FALSE).remaining,
                 get_quota_yesterday(user_checker, t))

Mail(J, t, rw, user) ==
    LET user_checker == UserChecker(J, t, rw, user)
    IN  [user |-> user,
         user_report |-> usage_report(user_checker, TRUE).text,
         active_jobs |-> JobIdsOf(active_jobs(user_checker))]

NoCycle ==
    [ran |-> FALSE, users |-> {}, verdict |-> [u \in Users |-> None],
     usage_lines |-> {}, warnings |-> {}, cancel_notices |-> {},
     cancel_requests |-> {}, failed |-> None]

\* Lines 180-183: the users sent a warning email.
Warnings(J, t, rw, active_users, verdict) ==
    {Mail(J, t, rw, u) : u \in {v \in active_users : verdict[v] = "WARN"}}

\* Lines 186-189: the users sent a canceling email.
CancelNotices(J, t, rw, active_users, verdict) ==
    {Mail(J, t, rw, u) : u \in {v \in active_users : verdict[v] = "CANCEL"}}

\* A cancel loop that has slipped out of the else branch: it runs for every
\* user over quota.
CancelRequests_AnyDeficit(J, t, rw, active_users, verdict) ==
    UNION {JobIdsOf(active_jobs(UserChecker(J, t, rw, u)))
               : u \in {v \in active_users : verdict[v] \in {"WARN", "CANCEL"}}}

\* Lines 190-191: the job ids handed to cancel_job.
CancelRequests(J, t, rw, active_users, verdict) ==
    UNION {JobIdsOf(active_jobs(UserChecker(J, t, rw, u)))
               : u \in {v \in active_users : verdict[v] = "CANCEL"}}

usage_monitor(J, t, mw, rw) ==
    LET admin == ResourceChecker(J, t, "ALL", Quota, mw)
        active_users == ActiveUsers(admin)
        verdict == [u \in Users |->
                       IF u \in active_users THEN UserVerdict(J, t, rw, u) ELSE None]
    IN  [ran |-> TRUE,
         users |-> active_users,
         verdict |-> verdict,
         usage_lines |-> {[user |-> u,
                           remaining |-> usage_report(UserChecker(J, t, rw, u), FALSE).remaining]
                             : u \in active_users},
         warnings |-> Warnings(J, t, rw, active_users, verdict),
         cancel_notices |-> CancelNotices(J, t, rw, active_users, verdict),
         cancel_requests |-> CancelRequests(J, t, rw, active_users, verdict),
         failed |-> None]

\* The orders in which list(active_users) may hand out the users of a set.
Orders == {<< "alice", "bob" >>, << "bob", "alice" >>}

\* The users that come before user in order.
Before(order, user) ==
    {order[i] : i \in {k \in 1..Len(order) : \A m \in 1..k : order[m] # user}}

\* usage_monitor when the sacct query of one user fails: fetch_report raises
\* (lines 37-41) inside the loop of lines 173-191, which has no handler, so
\* the cycle ends there.  What was emitted for the users before stays.
usage_monitor_failing(J, t, mw, rw, order, failing) ==
    LET full == usage_monitor(J, t, mw, rw)
        done == Before(order, failing) \cap full.users
    IN  [ran |-> TRUE,
         users |-> full.users,
         verdict |-> [u \in Users |-> IF u \in done THEN full.verdict[u] ELSE None],
         usage_lines |-> {l \in full.usage_lines : l.user \in done},
         warnings |-> {m \in full.warnings : m.user \in done},
         cancel_notices |-> {m \in full.cancel_notices : m.user \in done},
         cancel_requests |-> CancelRequests(J, t, rw, done, full.verdict),
         failed |-> failing]

----------------------------------------------------------------------------
(* History of each user's deficit, kept beside the program's state *)

InDeficit(J, t, rw, u) == usage_report(UserChecker(J, t, rw, u), FALSE).remaining < 0

\* While only the clock moves, a user's usage grows except at the instants a
\* job leaves the window: the first tick at which the window start, in whole
\* seconds, lies past the job's start (rolling window), or the first tick of
\* a month (calendar window).
LeaveTicks(J, rw, u) ==
    IF rw # 0
    THEN {(J[j].start + 1 + rw * SecsPerMin) * TicksPerSec
              : j \in {i \in JobIds : J[i].user = u /\ J[i].start > 0}}
    ELSE {MonthStarts[i] * Day * TicksPerSec : i \in 1..Len(MonthStarts)}

\* u is over quota at every instant of (t1, t2], the jobs being J throughout.
DeficitThroughout(J, t1, t2, rw, u) ==
    \A tau \in {x \in LeaveTicks(J, rw, u) : t1 < x /\ x <= t2} \cup {t2} :
        InDeficit(J, tau, rw, u)

History(J2, t2) ==
    /\ lastNonDeficit' = [u \in Users |->
           IF InDeficit(J2, t2, rolling_window, u) THEN lastNonDeficit[u] ELSE t2]
    /\ deficitSince' = [u \in Users |->
           IF ~InDeficit(J2, t2, rolling_window, u) THEN 0 - 1
           ELSE IF deficitSince[u] >= 0 /\ DeficitThroughout(jobs, now, t2, rolling_window, u)
                THEN deficitSince[u]
                ELSE t2]

----------------------------------------------------------------------------
(* Initial state and actions *)

NoForecast == [ran |-> FALSE, error |-> None, values |-> << >>]

NoParse == [ran |-> FALSE, error |-> None, records |-> << >>,
            data |-> << >>, start_time |-> 0]

NoReport ==
    [ran |-> FALSE, user |-> None, error |-> None, text |-> NoText,
     forecast_call |-> NoForecast, parse_call |-> NoParse]

InitWith(deployments) ==
    /\ now = StartTick
    /\ jobs = [j \in JobIds |-> NoJob]
    /\ \E dep \in deployments :
           /\ monitor_window = dep.monitor_window
           /\ rolling_window = dep.rolling_window
    /\ cycle = NoCycle
    /\ report = NoReport
    /\ lastNonDeficit = [u \in Users |-> StartTick]
    /\ deficitSince = [u \in Users |-> 0 - 1]

Init == InitWith(Deployments)

\* The clock advances; running jobs accumulate elapsed time.
Advance(d) ==
    /\ now + d <= MaxTick
    /\ d = 1 => (now - StartTick) % StepTicks < MaxSmallSteps
    /\ now' = now + d
    /\ cycle' = NoCycle
    /\ report' = NoReport
    /\ History(jobs, now + d)
    /\ UNCHANGED <<jobs, monitor_window, rolling_window>>

\* sbatch: the next job id is queued for a user.  User names are
\* interchangeable (the code compares none but "ALL"), so the owner of the
\* first job is called alice.
Submit(j, u, tres) ==
    /\ jobs[j].state = "NONE"
    /\ j = 1 => u = "alice"
    /\ \A i \in 1..(j - 1) : jobs[i].state # "NONE"
    /\ jobs' = [jobs EXCEPT ![j] = [user |-> u, state |-> "PENDING", start |-> 0,
                                    endt |-> 0, tres |-> tres]]
    /\ cycle' = NoCycle
    /\ report' = NoReport
    /\ History(jobs', now)
    /\ UNCHANGED <<now, monitor_window, rolling_window>>

\* The scheduler starts a queued job.
Start(j) ==
    /\ jobs[j].state = "PENDING"
    /\ jobs' = [jobs EXCEPT ![j].state = "RUNNING", ![j].start = strftime(now)]
    /\ cycle' = NoCycle
    /\ report' = NoReport
    /\ History(jobs', now)
    /\ UNCHANGED <<now, monitor_window, rolling_window>>

\* A running job ends.
Finish(j) ==
    /\ jobs[j].state = "RUNNING"
    /\ jobs' = [jobs EXCEPT ![j].state = "COMPLETED", ![j].endt = strftime(now)]
    /\ cycle' = NoCycle
    /\ report' = NoReport
    /\ History(jobs', now)
    /\ UNCHANGED <<now, monitor_window, rolling_window>>

\* cancel_job(job_id) takes effect in the scheduler.
SchedulerCancel(j) ==
    /\ j \in cycle.cancel_requests
    /\ jobs[j].state \in ActiveStates
    /\ jobs' = [jobs EXCEPT ![j].state = "CANCELLED", ![j].endt = strftime(now)]
    /\ cycle' = [NoCycle EXCEPT !.cancel_requests = cycle.cancel_requests \ {j}]
    /\ report' = NoReport
    /\ History(jobs', now)
    /\ UNCHANGED <<now, monitor_window, rolling_window>>

\* A monitor that keeps the previous cycle's mails and sends only new ones.
Monitor_Dedup ==
    /\ cycle' = [usage_monitor(jobs, now, monitor_window, rolling_window)
                     EXCEPT !.warnings = @ \ cycle.warnings,
                            !.cancel_notices = @ \ cycle.cancel_notices]
    /\ UNCHANGED <<now, jobs, monitor_window, rolling_window, report, lastNonDeficit, deficitSince>>

\* One admin cycle: ResourceCheckerAdmin(...).usage_monitor().
Monitor ==
    /\ cycle' = usage_monitor(jobs, now, monitor_window, rolling_window)
    /\ UNCHANGED <<now, jobs, monitor_window, rolling_window, report, lastNonDeficit, deficitSince>>

\* One admin cycle in which the accounting source fails: the --allusers
\* query of the constructor (nothing is emitted), or the query of one of the
\* discovered users, the users being taken in some order.
MonitorFailing(order, failing) ==
    /\ \/ /\ failing = "ALL"
          /\ cycle' = [NoCycle EXCEPT !.failed = failing]
       \/ /\ failing \in ActiveUsers(ResourceChecker(jobs, now, "ALL", Quota, monitor_window))
          /\ cycle' = usage_monitor_failing(jobs, now, monitor_window, rolling_window,
                                            order, failing)
    /\ UNCHANGED <<now, jobs, monitor_window, rolling_window, report, lastNonDeficit, deficitSince>>

\* cp-quota-check: a user's verbose usage report.
QuotaCheck(u) ==
    /\ cycle' = NoCycle
    /\ LET result == usage_report(UserChecker(jobs, now, rolling_window, u), TRUE)
       IN  report' = [NoReport EXCEPT !.ran = TRUE, !.user = u,
                                      !.error = result.error, !.text = result.text]
    /\ UNCHANGED <<now, jobs, monitor_window, rolling_window, lastNonDeficit, deficitSince>>

\* A caller asks a user's checker for the forecast alone:
\* ResourceChecker(...).get_quota_forecast(quota).
ForecastCall(u) ==
    /\ cycle' = NoCycle
    /\ LET c == UserChecker(jobs, now, rolling_window, u)
           result == get_quota_forecast(c, c.quota, ForecastHours)
       IN  report' = [NoReport EXCEPT !.user = u,
                         !.forecast_call = [ran |-> TRUE, error |-> result.error,
                                            values |-> result.values]]
    /\ UNCHANGED <<now, jobs, monitor_window, rolling_window, lastNonDeficit, deficitSince>>

\* A job entry that has come without one of its keys.
WithoutKey(job, key) == [k \in (DOMAIN job) \ {key} |-> job[k]]

\* The keys an entry may come without.
DroppedKeys == {"job_id", "state", "time"}

\* The response to a checker's query, entry i of it without key.
Malformed(data, i, key) ==
    [k \in 1..Len(data) |-> IF k = i THEN WithoutKey(data[k], key) ELSE data[k]]

\* fetch_report for a selector when sacct answers with one malformed job
\* entry: the response goes through parse.
ParseResponse(user, i, key) ==
    /\ cycle' = NoCycle
    /\ LET start_time == WindowStart(now, rolling_window)
           response == Sacct(jobs, now, user, start_time, strftime(now))
       IN  /\ i \in 1..Len(response)
           /\ LET data == Malformed(response, i, key)
                  result == ParseOutcome(data, start_time)
              IN  report' = [NoReport EXCEPT !.user = user,
                                !.parse_call = [ran |-> TRUE, error |-> result.error,
                                                records |-> result.records,
                                                data |-> data, start_time |-> start_time]]
    /\ UNCHANGED <<now, jobs, monitor_window, rolling_window, lastNonDeficit, deficitSince>>

Next ==
    \/ \E d \in {1, StepTicks} : Advance(d)
    \/ \E j \in JobIds, u \in Users, tres \in 1..Len(TresChoices) : Submit(j, u, tres)
    \/ \E j \in JobIds : Start(j)
    \/ \E j \in JobIds : Finish(j)
    \/ \E j \in JobIds : SchedulerCancel(j)
    \/ Monitor

Spec == Init /\ [][Next]_vars

(* The admin monitor over an accounting source that may fail *)

FaultyDeployments == {[monitor_window |-> 2880, rolling_window |-> 2880]}

InitFaulty == InitWith(FaultyDeployments)

FaultyMaxTick == StartTick + FaultySteps * StepTicks + MaxSmallSteps

AdvanceFaulty(d) == now + d <= FaultyMaxTick /\ Advance(d)

NextFaulty ==
    \/ \E d \in {1, StepTicks} : AdvanceFaulty(d)
    \/ \E j \in JobIds, u \in Users, tres \in 1..Len(TresChoices) : Submit(j, u, tres)
    \/ \E j \in JobIds : Start(j)
    \/ \E j \in JobIds : Finish(j)
    \/ \E j \in JobIds : SchedulerCancel(j)
    \/ Monitor
    \/ \E order \in Orders, failing \in Users \cup {"ALL"} : MonitorFailing(order, failing)

SpecFaulty == InitFaulty /\ [][NextFaulty]_vars

(* A checker's query answered with a malformed job entry *)

ParseDeployments == {[monitor_window |-> MonitorWindow, rolling_window |-> 1440]}

InitParse == InitWith(ParseDeployments)

ParseMaxTick == StartTick + ParseSteps * StepTicks + MaxSmallSteps

AdvanceParse(d) == now + d <= ParseMaxTick /\ Advance(d)

NextParse ==
    \/ \E d \in {1, StepTicks} : AdvanceParse(d)
    \/ \E j \in JobIds, u \in Users, tres \in 1..Len(TresChoices) : Submit(j, u, tres)
    \/ \E j \in JobIds : Start(j)
    \/ \E j \in JobIds : Finish(j)
    \/ \E user \in Users \cup {"ALL"}, i \in JobIds, key \in DroppedKeys :
           ParseResponse(user, i, key)

SpecParse == InitParse /\ [][NextParse]_vars

(* The user-facing report: cp-quota-check over the same scheduler *)

InitReport == InitWith(ReportDeployments)

ReportMaxTick == StartTick + ReportSteps * StepTicks + MaxSmallSteps

AdvanceReport(d) == now + d <= ReportMaxTick /\ Advance(d)

NextReport ==
    \/ \E d \in {1, StepTicks} : AdvanceReport(d)
    \/ \E j \in JobIds, u \in Users, tres \in 1..Len(TresChoices) : Submit(j, u, tres)
    \/ \E j \in JobIds : Start(j)
    \/ \E j \in JobIds : Finish(j)
    \/ \E u \in Users : QuotaCheck(u)
    \/ \E u \in Users : ForecastCall(u)

SpecReport == InitReport /\ [][NextReport]_vars

----------------------------------------------------------------------------
(* Properties *)

DayTicks == Day * TicksPerSec

GpuCount(j) == SumGpus(TresChoices[jobs[j].tres], 1)

\* GPU-seconds of u's jobs whose start lies in [lo, hi] (ticks), read off the
\* accounting database itself.
RECURSIVE DbGpuSecsFrom(_, _, _, _)
DbGpuSecsFrom(u, lo, hi, j) ==
    IF j > MaxJobs THEN 0
    ELSE (IF /\ jobs[j].state # "NONE"
             /\ jobs[j].user = u
             /\ jobs[j].start * TicksPerSec >= lo
             /\ jobs[j].start * TicksPerSec <= hi
          THEN Elapsed(jobs[j], now) * GpuCount(j) ELSE 0)
             + DbGpuSecsFrom(u, lo, hi, j + 1)

DbGpuSecs(u, lo, hi) == DbGpuSecsFrom(u, lo, hi, 1)

StartTicks == WindowStart(now, rolling_window) * TicksPerSec
RemainingNow(u) == Quota * SecsPerHour - DbGpuSecs(u, StartTicks, now)
RemainingYesterday(u) == Quota * SecsPerHour - DbGpuSecs(u, StartTicks, now - DayTicks)

MailedUsers(mails) == {m.user : m \in mails}
OwnersOf(ids) == {jobs[j].user : j \in ids}

\* C1: every user the monitor evaluates is OK when remaining_now >= 0 whatever
\* remaining_yesterday is, WARN when remaining_now < 0 and remaining_yesterday
\* >= 0, and CANCEL when both are negative, both taken over the same window
\* start.
C1_Classification ==
    cycle.ran =>
        \A u \in cycle.users :
            /\ RemainingNow(u) >= 0 => cycle.verdict[u] = "OK"
            /\ (RemainingNow(u) < 0 /\ RemainingYesterday(u) >= 0)
                   => cycle.verdict[u] = "WARN"
            /\ (RemainingNow(u) < 0 /\ RemainingYesterday(u) < 0)
                   => cycle.verdict[u] = "CANCEL"

C1_Witness ==
    /\ cycle.ran
    /\ \E u \in cycle.users :
           RemainingNow(u) < 0 /\ RemainingYesterday(u) < 0 /\ cycle.verdict[u] = "CANCEL"
    /\ \E u \in cycle.users :
           RemainingNow(u) >= 0 /\ RemainingYesterday(u) >= 0 /\ cycle.verdict[u] = "OK"

\* C2: in a monitor cycle an OK user gets a usage line only, a WARN user
\* exactly a warning and no cancellation request, a CANCEL user a cancellation
\* notice and the cancellation requests; no cancellation request is issued
\* for a job whose owner was not classified CANCEL in that cycle.
C2_ActionsMatchState ==
    cycle.ran =>
        /\ \A u \in cycle.users :
               /\ \E l \in cycle.usage_lines : l.user = u
               /\ cycle.verdict[u] = "OK" =>
                      /\ u \notin MailedUsers(cycle.warnings)
                      /\ u \notin MailedUsers(cycle.cancel_notices)
                      /\ u \notin OwnersOf(cycle.cancel_requests)
               /\ cycle.verdict[u] = "WARN" =>
                      /\ Cardinality({m \in cycle.warnings : m.user = u}) = 1
                      /\ u \notin MailedUsers(cycle.cancel_notices)
                      /\ u \notin OwnersOf(cycle.cancel_requests)
               /\ cycle.verdict[u] = "CANCEL" =>
                      /\ Cardinality({m \in cycle.cancel_notices : m.user = u}) = 1
                      /\ u \notin MailedUsers(cycle.warnings)
                      /\ \A m \in cycle.cancel_notices :
                             m.user = u => m.active_jobs \subseteq cycle.cancel_requests
        /\ MailedUsers(cycle.warnings) \cup MailedUsers(cycle.cancel_notices)
               \subseteq cycle.users
        /\ \A j \in cycle.cancel_requests : cycle.verdict[jobs[j].user] = "CANCEL"

C2_Witness ==
    /\ cycle.ran
    /\ \E u \in cycle.users : cycle.verdict[u] = "WARN" /\ u \in MailedUsers(cycle.warnings)
    /\ \E u \in cycle.users :
           cycle.verdict[u] = "CANCEL" /\ u \in OwnersOf(cycle.cancel_requests)
\* C3: a user is classified CANCEL only after more than 24 hours in deficit;
\* within the 24 hours after the user was last within quota only a warning is
\* issued.
C3_GracePeriod ==
    cycle.ran =>
        \A u \in cycle.users :
            cycle.verdict[u] = "CANCEL" => now - lastNonDeficit[u] > DayTicks

\* C4: a user who has been in deficit without interruption for more than 24
\* hours is never still classified WARN.
C4_WarnOnlyWithinDay ==
    cycle.ran =>
        \A u \in cycle.users :
            cycle.verdict[u] = "WARN" =>
                ~(deficitSince[u] >= 0 /\ now - deficitSince[u] > DayTicks)

ActiveJobIds == {j \in JobIds : jobs[j].state \in ActiveStates}

\* C5: every admin cycle evaluates the user of every RUNNING or PENDING job,
\* whatever the job's start_time.
C5_DiscoveryWindowIndependent ==
    cycle.ran => \A j \in ActiveJobIds : jobs[j].user \in cycle.users

\* C6: when a user is classified CANCEL, a cancellation request is issued for
\* every RUNNING or PENDING job of that user, whatever the job's start_time.
C6_CancelEveryActiveJob ==
    cycle.ran =>
        \A u \in cycle.users :
            cycle.verdict[u] = "CANCEL" =>
                \A j \in ActiveJobIds : jobs[j].user = u => j \in cycle.cancel_requests
\* The instants the usage of a state is cut at: where windows start, where
\* they are split, where they end.
JobStartTicks == {jobs[j].start * TicksPerSec : j \in JobIds}
LowerCuts == {StartTicks} \cup JobStartTicks
SplitCuts == {StartTicks, now - DayTicks} \cup JobStartTicks \cup {x - 1 : x \in JobStartTicks}
UpperCuts == {now, now - DayTicks} \cup JobStartTicks

Checkers ==
    {ResourceChecker(jobs, now, u, Quota, rolling_window) : u \in Users \cup {"ALL"}}

\* C7: get_gpu_hrs is never negative, and the usage of a window is the sum of
\* the usages of two disjoint sub-windows that make it up.
C7_UsageAdditive ==
    \A c \in Checkers :
        \A a \in LowerCuts, e \in UpperCuts :
            /\ get_gpu_hrs(c, a, e) >= 0
            /\ \A b \in SplitCuts :
                   (a <= b /\ b < e) =>
                       get_gpu_hrs(c, a, b) + get_gpu_hrs(c, b + 1, e) = get_gpu_hrs(c, a, e)

C7_Witness ==
    \E c \in Checkers :
        \E a \in LowerCuts, b \in SplitCuts, e \in UpperCuts :
            /\ a <= b /\ b < e
            /\ get_gpu_hrs(c, a, b) > 0
            /\ get_gpu_hrs(c, b + 1, e) > 0

OffsetChoices == {0, 6, 12, 18, 24, 30, 72, 168}

\* C8: with a rolling window the forecast does not decrease as the offset
\* grows, and it is the whole quota for every offset at or beyond the window
\* length; so are the values a usage report shows.
C8_ForecastMonotone ==
    rolling_window > 0 =>
        /\ \A u \in Users :
               LET c == UserChecker(jobs, now, rolling_window, u)
               IN  \A h1 \in OffsetChoices, h2 \in OffsetChoices :
                       /\ h1 <= h2 => ForecastAt(c, Quota, h1) <= ForecastAt(c, Quota, h2)
                       /\ h1 * SecsPerMin >= rolling_window
                              => ForecastAt(c, Quota, h1) = Quota * SecsPerHour
        /\ report.ran =>
               /\ Len(report.text.forecast) = Len(ForecastHours)
               /\ \A i \in 1..Len(ForecastHours), k \in 1..Len(ForecastHours) :
                      /\ i <= k => report.text.forecast[i] <= report.text.forecast[k]
                      /\ ForecastHours[i] * SecsPerMin >= rolling_window
                             => report.text.forecast[i] = Quota * SecsPerHour

C8_Witness ==
    /\ rolling_window > 0
    /\ report.ran
    /\ report.text.gpu_hours > 0
    /\ report.text.forecast[1] < report.text.forecast[2]
    /\ report.text.forecast[1] > report.text.remaining_hours
    /\ report.text.forecast[2] = Quota * SecsPerHour

C10_WindowResolution ==
    report.ran =>
        /\ report.text.end_time = strftime(now)
        /\ rolling_window > 0 =>
               report.text.start_time = report.text.end_time - rolling_window * SecsPerMin
        /\ rolling_window = 0 =>
               /\ \E i \in 1..Len(MonthStarts) : report.text.start_time = MonthStarts[i] * Day
               /\ report.text.start_time <= report.text.end_time
               /\ \A i \in 1..Len(MonthStarts) :
                      MonthStarts[i] * Day <= report.text.end_time
                          => MonthStarts[i] * Day <= report.text.start_time
        /\ report.text.end_time >= report.text.start_time
        /\ rolling_window < 0 => report.error = "InvalidWindow"

\* u has a job on record that started at the very second the window starts.
StartsAtWindowStart(u) ==
    \E j \in JobIds :
        /\ jobs[j].state # "NONE"
        /\ jobs[j].user = u
        /\ jobs[j].start = WindowStart(now, rolling_window)

C13_ForecastOnlyRolling ==
    /\ (report.forecast_call.ran /\ rolling_window = 0) =>
           /\ report.forecast_call.error = ForecastUnsupported
           /\ report.forecast_call.values = << >>
    /\ (report.ran /\ rolling_window = 0) =>
           /\ report.error = None
           /\ report.text.verbose
           /\ ~report.text.rolling
           /\ report.text.forecast = << >>
    /\ (report.forecast_call.ran /\ report.forecast_call.values # << >>) =>
           rolling_window # 0
    /\ (report.ran /\ report.error = None /\ report.text.forecast # << >>) =>
           rolling_window # 0

C13_Witness ==
    /\ rolling_window = 0
    /\ report.forecast_call.ran
    /\ report.forecast_call.error = ForecastUnsupported
    /\ DbGpuSecs(report.user, StartTicks, now) > 0

\* C11: when the accounting query of one discovered user fails in a monitor
\* cycle, every other discovered user is still classified and acted upon as
\* in a cycle without failure, and the failing user is reported as unknown:
\* neither classified OK nor given a usage line.
C11_FailureIsolated ==
    (cycle.ran /\ cycle.failed # None) =>
        /\ \A u \in cycle.users \ {cycle.failed} :
               /\ cycle.verdict[u] = UserVerdict(jobs, now, rolling_window, u)
               /\ \E l \in cycle.usage_lines : l.user = u
               /\ cycle.verdict[u] = "WARN" => u \in MailedUsers(cycle.warnings)
               /\ cycle.verdict[u] = "CANCEL" =>
                      /\ u \in MailedUsers(cycle.cancel_notices)
                      /\ JobIdsOf(active_jobs(UserChecker(jobs, now, rolling_window, u)))
                             \subseteq cycle.cancel_requests
        /\ cycle.verdict[cycle.failed] = "UNKNOWN"
        /\ \A l \in cycle.usage_lines : l.user # cycle.failed

\* The entries of a response that carry every required key.
ValidEntries(data) == SelectSeq(data, LAMBDA job : RequiredKeys \subseteq DOMAIN job)

\* C12: parsing a response with one malformed job entry surfaces the error,
\* skips that entry and returns the record of every valid sibling entry of
\* the window, in start order; the parse is not aborted.
C12_MalformedSkipped ==
    report.parse_call.ran =>
        /\ KeyErrors(report.parse_call.data) # {} => report.parse_call.error # None
        /\ report.parse_call.records
               = parse(ValidEntries(report.parse_call.data), report.parse_call.start_time)

====
